---- MODULE Spec2Model ----
(***************************************************************************)
(* Model of datadog/resource_datadog_integration_webhook.go: the Terraform *)
(* resource that maps the Datadog webhook integration onto the             *)
(* create / read / delete / exists / import lifecycle.                     *)
(*                                                                         *)
(* Strings that the code takes apart (the wire header blob, header keys    *)
(* and values) are sequences of one-character strings.  Strings the code   *)
(* only copies (name, url, custom_payload) and the boolean texts are       *)
(* atomic TLA+ strings.                                                    *)
(***************************************************************************)
EXTENDS Integers, Sequences, FiniteSets, TLC

\* ------------------------------------------------------------------ bounds
MaxStrLen == 4      \* longest wire header string handed to the decoder
MaxKeys == 2        \* most entries of a header mapping handed to the encoder

\* The characters strings are made of: an ordinary character, the separator
\* of key and value, and the three characters strings.Trim cuts at line 149.
Chars == {"a", ":", " ", "\n", "\t"}

Strs(n) == UNION {[1..k -> Chars] : k \in 0..n}

\* F applied to the value of v, with v evaluated once (an operator's
\* argument is otherwise evaluated again wherever the operator uses it).
Bind(v, F(_)) == CHOOSE r \in {F(x) : x \in {v}} : TRUE

\* --------------------------------------------------- Go's strings package
Contains(s, c) == \E i \in 1..Len(s) : s[i] = c

RECURSIVE TrimLeft(_, _)
TrimLeft(s, cutset) ==
    IF s # <<>> /\ Head(s) \in cutset
    THEN Bind(Tail(s), LAMBDA rest : TrimLeft(rest, cutset))
    ELSE s

RECURSIVE TrimRight(_, _)
TrimRight(s, cutset) ==
    IF s # <<>> /\ s[Len(s)] \in cutset
    THEN Bind(SubSeq(s, 1, Len(s) - 1), LAMBDA rest : TrimRight(rest, cutset))
    ELSE s

Trim(s, cutset) ==
    Bind(TrimLeft(s, cutset), LAMBDA rest : TrimRight(rest, cutset))

\* The place of the first sep in s, which has one.
Index(s, sep) ==
    CHOOSE j \in 1..Len(s) : s[j] = sep /\ \A k \in 1..(j - 1) : s[k] # sep

\* strings.Split with a one-character separator: Split("", sep) is <<"">>.
RECURSIVE Split(_, _)
Split(s, sep) ==
    IF ~Contains(s, sep) THEN <<s>>
    ELSE Bind(Index(s, sep), LAMBDA i :
             Bind(SubSeq(s, i + 1, Len(s)), LAMBDA rest :
                 <<SubSeq(s, 1, i - 1)>> \o Split(rest, sep)))

RECURSIVE Join(_, _)
Join(list, sep) ==
    IF list = <<>> THEN <<>>
    ELSE IF Len(list) = 1 THEN list[1]
    ELSE Bind(Tail(list), LAMBDA rest : list[1] \o sep \o Join(rest, sep))

\* ------------------------------------------------------------ Go's maps
EmptyMap == [k \in {} |-> <<>>]

MapSet(m, key, value) ==
    [k \in (DOMAIN m) \cup {key} |-> IF k = key THEN value ELSE m[k]]

\* The orders in which a range over a map with these keys may visit them.
Orders(keys) ==
    {o \in [1..Cardinality(keys) -> keys] : \A k \in keys : \E i \in DOMAIN o : o[i] = k}

\* ------------------------------------------------------- header encoding
\* fmt.Sprintf("%s: %s", key, value)
HeaderLine(key, value) == key \o <<":", " ">> \o value

\* order: the order in which the range over the map visits its keys.
buildDatadogHeader(headers, order) ==
    Bind([i \in DOMAIN order |-> HeaderLine(order[i], headers[order[i]])],
         LAMBDA headerList : Join(headerList, <<"\n">>))

\* The entry one line with a colon adds: terraformHeaders[split[0]] =
\* strings.TrimLeft(strings.Join(split[1:], ""), " ").
HeaderEntry(terraformHeaders, headerStr) ==
    Bind(Split(headerStr, ":"), LAMBDA split :
        Bind(Join(Tail(split), <<>>), LAMBDA joined :
            Bind(TrimLeft(joined, {" "}), LAMBDA value :
                MapSet(terraformHeaders, split[1], value))))

\* The loop of buildTerraformHeader over the lines, from line i on, with the
\* mapping built so far.  An error returns a nil mapping.
RECURSIVE HeaderLoop(_, _, _)
HeaderLoop(headerStrList, i, terraformHeaders) ==
    IF i > Len(headerStrList)
    THEN [err |-> FALSE, nil |-> FALSE, val |-> terraformHeaders]
    ELSE IF Contains(headerStrList[i], ":")
    THEN Bind(HeaderEntry(terraformHeaders, headerStrList[i]), LAMBDA headers :
             HeaderLoop(headerStrList, i + 1, headers))
    ELSE [err |-> TRUE, nil |-> TRUE, val |-> EmptyMap]

\* The loop that skips a line without a colon.
RECURSIVE HeaderLoopSkipping(_, _, _)
HeaderLoopSkipping(headerStrList, i, terraformHeaders) ==
    IF i > Len(headerStrList)
    THEN [err |-> FALSE, nil |-> FALSE, val |-> terraformHeaders]
    ELSE IF Contains(headerStrList[i], ":")
    THEN Bind(HeaderEntry(terraformHeaders, headerStrList[i]), LAMBDA headers :
             HeaderLoopSkipping(headerStrList, i + 1, headers))
    ELSE HeaderLoopSkipping(headerStrList, i + 1, terraformHeaders)

buildTerraformHeaderSkipping(datadogHeader) ==
    IF Trim(datadogHeader, {" ", "\t", "\n"}) # <<>>
    THEN Bind(Split(datadogHeader, "\n"), LAMBDA headerStrList :
             HeaderLoopSkipping(headerStrList, 1, EmptyMap))
    ELSE [err |-> FALSE, nil |-> FALSE, val |-> EmptyMap]

buildTerraformHeader(datadogHeader) ==
    IF Trim(datadogHeader, {" ", "\t", "\n"}) # <<>>
    THEN Bind(Split(datadogHeader, "\n"), LAMBDA headerStrList :
             HeaderLoop(headerStrList, 1, EmptyMap))
    ELSE [err |-> FALSE, nil |-> FALSE, val |-> EmptyMap]

\* ------------------------------------------------------- Go's strconv
\* strconv.FormatBool and strconv.ParseBool; an error is a sequence of
\* message parts, the nil error the empty sequence.
FormatBool(b) == IF b THEN "true" ELSE "false"

ParseBool(str) ==
    IF str \in {"1", "t", "T", "TRUE", "true", "True"}
    THEN [err |-> <<>>, val |-> TRUE]
    ELSE IF str \in {"0", "f", "F", "FALSE", "false", "False"}
    THEN [err |-> <<>>, val |-> FALSE]
    ELSE [err |-> <<"strconv.ParseBool: invalid syntax">>, val |-> FALSE]

\* ----------------------------------------------------- hook translation
\* A configuration hook is a map from field names to values
\* (map[string]interface{}); a wire record is a datadog.Webhook, whose nil
\* fields are left out of the record's domain.
Has(rec, f) == f \in DOMAIN rec

\* order: the order in which buildDatadogHeader ranges over the headers.
buildDatadogWebhook(terraformWebhook, order) ==
    [f \in {"Name", "URL"}
           \cup (IF Has(terraformWebhook, "use_custom_payload")
                 THEN {"UseCustomPayload"} ELSE {})
           \cup (IF Has(terraformWebhook, "custom_payload")
                 THEN {"CustomPayload"} ELSE {})
           \cup (IF Has(terraformWebhook, "encode_as_form")
                 THEN {"EncodeAsForm"} ELSE {})
           \cup (IF Has(terraformWebhook, "headers") THEN {"Headers"} ELSE {})
     |-> CASE f = "Name" -> terraformWebhook["name"]
           [] f = "URL" -> terraformWebhook["url"]
           [] f = "UseCustomPayload" ->
                  FormatBool(terraformWebhook["use_custom_payload"])
           [] f = "CustomPayload" -> terraformWebhook["custom_payload"]
           [] f = "EncodeAsForm" -> FormatBool(terraformWebhook["encode_as_form"])
           [] f = "Headers" -> buildDatadogHeader(terraformWebhook["headers"], order)]

\* The orders buildDatadogHeader may take for one hook, and for each hook of
\* a list.
HeaderOrders(terraformWebhook) ==
    IF Has(terraformWebhook, "headers")
    THEN Orders(DOMAIN terraformWebhook["headers"])
    ELSE {<<>>}

ListOrders(hooks) ==
    {os \in [DOMAIN hooks -> UNION {HeaderOrders(hooks[i]) : i \in DOMAIN hooks}] :
        \A i \in DOMAIN hooks : os[i] \in HeaderOrders(hooks[i])}

\* d.Get("hooks") translated hook by hook, in order.
resourceDatadogIntegrationWebhookPrepareCreateRequest(hooks, orders) ==
    [i \in DOMAIN hooks |-> buildDatadogWebhook(hooks[i], orders[i])]

\* One pass of the loop of buildTerraformWebhooks: the error of the record,
\* <<>> when every field of it parses.
WebhookError(datadogWebhook) ==
    IF Has(datadogWebhook, "UseCustomPayload")
       /\ ParseBool(datadogWebhook["UseCustomPayload"]).err # <<>>
    THEN ParseBool(datadogWebhook["UseCustomPayload"]).err
    ELSE IF Has(datadogWebhook, "EncodeAsForm")
            /\ ParseBool(datadogWebhook["EncodeAsForm"]).err # <<>>
    THEN ParseBool(datadogWebhook["EncodeAsForm"]).err
    ELSE IF Has(datadogWebhook, "Headers")
            /\ buildTerraformHeader(datadogWebhook["Headers"]).err
    THEN <<"header not correctly formatted, expected ':'">>
    ELSE <<>>

\* The map that pass builds for a record whose fields all parse.
WebhookValue(datadogWebhook) ==
    [f \in {"name", "url"}
           \cup (IF Has(datadogWebhook, "UseCustomPayload")
                 THEN {"use_custom_payload"} ELSE {})
           \cup (IF Has(datadogWebhook, "CustomPayload")
                 THEN {"custom_payload"} ELSE {})
           \cup (IF Has(datadogWebhook, "EncodeAsForm")
                 THEN {"encode_as_form"} ELSE {})
           \cup (IF Has(datadogWebhook, "Headers") THEN {"headers"} ELSE {})
     |-> CASE f = "name" -> datadogWebhook["Name"]
           [] f = "url" -> datadogWebhook["URL"]
           [] f = "use_custom_payload" ->
                  ParseBool(datadogWebhook["UseCustomPayload"]).val
           [] f = "custom_payload" -> datadogWebhook["CustomPayload"]
           [] f = "encode_as_form" -> ParseBool(datadogWebhook["EncodeAsForm"]).val
           [] f = "headers" -> buildTerraformHeader(datadogWebhook["Headers"]).val]

\* The loop of buildTerraformWebhooks from record idx on: the first record
\* that does not parse ends it with that record's error and a nil list.
RECURSIVE WebhooksLoop(_, _, _)
WebhooksLoop(datadogWebhooks, idx, terraformWebhooks) ==
    IF idx > Len(datadogWebhooks)
    THEN [err |-> <<>>, val |-> terraformWebhooks]
    ELSE Bind(WebhookError(datadogWebhooks[idx]), LAMBDA err :
             IF err # <<>>
             THEN [err |-> err, val |-> <<>>]
             ELSE Bind(Append(terraformWebhooks, WebhookValue(datadogWebhooks[idx])),
                       LAMBDA webhooks :
                           WebhooksLoop(datadogWebhooks, idx + 1, webhooks)))

buildTerraformWebhooks(datadogWebhooks) == WebhooksLoop(datadogWebhooks, 1, <<>>)

\* ----------------------------------------------------------------- state
NumThreads == 2        \* threads of the process that invoke operations
MaxConfigHooks == 2    \* most hooks of a configuration
MaxRemoteHooks == 2    \* most hooks of the integration found at the start

Threads == 1..NumThreads

VARIABLES
    \* the translation functions applied on their own
    phase,       \* "idle", or the position of a translation: "str",
                 \* "decoded", "map", "encoded", "roundtrip", "list", "wire", "back"
    headerStr,   \* the wire header string
    headerMap,   \* the configuration-side header mapping
    decoded,     \* what buildTerraformHeader returned
    hookList,    \* a list of configuration hooks
    wireList,    \* the wire records buildDatadogWebhook made of it
    back,        \* what buildTerraformWebhooks returned for them
    \* the resource and the process that runs its operations
    mutex,       \* integrationWebhookMutex: TRUE when locked
    remote,      \* the account's webhook integration, as the client sees it
    pc,          \* per thread: where its invocation stands
    op,          \* per thread: the operation it runs
    d,           \* per thread: the "hooks" attribute of its ResourceData
    calls,       \* per thread: the remote calls its invocation has issued
    resp,        \* per thread: the response of its last remote call
    ret          \* per thread: what its invocation returned

hvars == <<phase, headerStr, headerMap, decoded>>
wvars == <<hookList, wireList, back>>
lvars == <<mutex, remote, pc, op, d, calls, resp, ret>>
vars == <<phase, headerStr, headerMap, decoded, hookList, wireList, back,
          mutex, remote, pc, op, d, calls, resp, ret>>

\* ------------------------------------------------------------ the inputs
\* Mappings with at most n entries, keys and values from the given sets.
MapsOf(keys, values, n) ==
    UNION {[ks -> values] : ks \in {x \in SUBSET keys : Cardinality(x) <= n}}

\* Header keys and values: empty, plain, with spaces before and after, and
\* with the characters the wire format gives a meaning to.
HeaderKeys == {<<>>, <<"a">>, <<" ">>, <<" ", "a", " ">>, <<"a", ":">>}
HeaderValues ==
    {<<>>, <<"a">>, <<" ">>, <<" ", "a">>, <<"a", " ">>, <<" ", " ", "a">>,
     <<":">>, <<"a", ":", "a">>, <<"\n", "a">>}

\* An optional field: <<>> when absent, <<v>> when present with value v.
Optional(values) == {<<>>} \cup {<<v>> : v \in values}

\* The configuration hook with these optional fields.
Hook(name, useCustomPayload, customPayload, encodeAsForm, headers) ==
    [f \in {"name", "url"}
           \cup (IF useCustomPayload # <<>> THEN {"use_custom_payload"} ELSE {})
           \cup (IF customPayload # <<>> THEN {"custom_payload"} ELSE {})
           \cup (IF encodeAsForm # <<>> THEN {"encode_as_form"} ELSE {})
           \cup (IF headers # <<>> THEN {"headers"} ELSE {})
     |-> CASE f = "name" -> name
           [] f = "url" -> "https://example.com/hook"
           [] f = "use_custom_payload" -> useCustomPayload[1]
           [] f = "custom_payload" -> customPayload[1]
           [] f = "encode_as_form" -> encodeAsForm[1]
           [] f = "headers" -> headers[1]]

\* Every combination of the optional fields, the headers one entry at most.
Hooks(values) ==
    {Hook("n", u, c, e, h) :
        u \in Optional(BOOLEAN), c \in Optional({"payload"}),
        e \in Optional(BOOLEAN),
        h \in Optional(MapsOf({<<"a">>}, values, 1))}

Lists(elems, n) == UNION {[1..k -> elems] : k \in 0..n}

\* Three hooks of a configuration: all fields set, the headers of two
\* entries; the required fields and one flag; a header value with a newline.
HookA ==
    Hook("a", <<TRUE>>, <<"payload">>, <<FALSE>>,
         <<[k \in {<<"a">>, <<"a", "a">>} |-> <<"a">>]>>)
HookB == Hook("b", <<>>, <<>>, <<TRUE>>, <<>>)
HookC == Hook("c", <<>>, <<>>, <<>>, <<[k \in {<<"a">>} |-> <<"\n", "a">>]>>)

\* Three wire records an integration may hold: one that translates (its
\* flag in a spelling FormatBool does not produce), one with a flag that is
\* no boolean, one with a header line without a colon.
WireGood ==
    [Name |-> "g", URL |-> "https://example.com/g", UseCustomPayload |-> "T",
     Headers |-> <<"a", ":", "a">>]
WireBadBool ==
    [Name |-> "x", URL |-> "https://example.com/x", EncodeAsForm |-> "yes"]
WireBadHeader ==
    [Name |-> "y", URL |-> "https://example.com/y", Headers |-> <<"a", "\n", "a", ":">>]

Absent == [present |-> FALSE, hooks |-> <<>>]
Present(hooks) == [present |-> TRUE, hooks |-> hooks]

NoResult == [err |-> FALSE, nil |-> TRUE, val |-> EmptyMap]
NoList == [err |-> <<>>, val |-> <<>>]
NoResp == [err |-> <<>>, hooks |-> <<>>]
NoRet == [err |-> <<>>, b |-> FALSE, n |-> 0]

HeaderIdle ==
    /\ phase = "idle"
    /\ headerStr = <<>>
    /\ headerMap = EmptyMap
    /\ decoded = NoResult

HooksIdle ==
    /\ hookList = <<>>
    /\ wireList = <<>>
    /\ back = NoList

ResourceIdle ==
    /\ mutex = FALSE
    /\ remote = Absent
    /\ pc = [t \in Threads |-> "idle"]
    /\ op = [t \in Threads |-> "none"]
    /\ d = [t \in Threads |-> <<>>]
    /\ calls = [t \in Threads |-> <<>>]
    /\ resp = [t \in Threads |-> NoResp]
    /\ ret = [t \in Threads |-> NoRet]

\* --------------------------------------------- the decoder on its own
DecodeInit ==
    /\ phase = "str"
    /\ headerStr \in Strs(MaxStrLen)
    /\ headerMap = EmptyMap
    /\ decoded = NoResult
    /\ HooksIdle
    /\ ResourceIdle

\* buildTerraformHeader applied to a wire string.
Decode ==
    /\ phase = "str"
    /\ decoded' = buildTerraformHeader(headerStr)
    /\ phase' = "decoded"
    /\ UNCHANGED <<headerStr, headerMap>>
    /\ UNCHANGED <<wvars, lvars>>

DecodeNext == Decode

DecodeSpec == DecodeInit /\ [][DecodeNext]_vars

\* ------------------------------------ the encoder, then the decoder
RoundTripInit ==
    /\ phase = "map"
    /\ headerMap \in MapsOf(HeaderKeys, HeaderValues, MaxKeys)
    /\ headerStr = <<>>
    /\ decoded = NoResult
    /\ HooksIdle
    /\ ResourceIdle

\* buildDatadogHeader applied to a mapping, in one of the orders the range
\* over the map may take.
Encode ==
    /\ phase = "map"
    /\ \E order \in Orders(DOMAIN headerMap) :
           headerStr' = buildDatadogHeader(headerMap, order)
    /\ phase' = "encoded"
    /\ UNCHANGED <<headerMap, decoded>>
    /\ UNCHANGED <<wvars, lvars>>

\* buildTerraformHeader applied to what buildDatadogHeader produced.
DecodeEncoded ==
    /\ phase = "encoded"
    /\ decoded' = buildTerraformHeader(headerStr)
    /\ phase' = "roundtrip"
    /\ UNCHANGED <<headerStr, headerMap>>
    /\ UNCHANGED <<wvars, lvars>>

RoundTripNext == Encode \/ DecodeEncoded

RoundTripSpec == RoundTripInit /\ [][RoundTripNext]_vars

\* ------------------------- the hook translation, outbound then inbound
TranslateInit ==
    /\ phase = "list"
    /\ headerStr = <<>>
    /\ headerMap = EmptyMap
    /\ decoded = NoResult
    /\ hookList \in Lists(Hooks({<<"a">>, <<" ", "a">>, <<":">>}), MaxConfigHooks)
    /\ wireList = <<>>
    /\ back = NoList
    /\ ResourceIdle

\* buildDatadogWebhook applied to each hook of the list.
Outbound ==
    /\ phase = "list"
    /\ \E orders \in ListOrders(hookList) :
           wireList' = resourceDatadogIntegrationWebhookPrepareCreateRequest(
                           hookList, orders)
    /\ phase' = "wire"
    /\ UNCHANGED <<headerStr, headerMap, decoded, hookList, back, lvars>>

\* buildTerraformWebhooks applied to the records.
Inbound ==
    /\ phase = "wire"
    /\ back' = buildTerraformWebhooks(wireList)
    /\ phase' = "back"
    /\ UNCHANGED <<headerStr, headerMap, decoded, hookList, wireList, lvars>>

TranslateNext == Outbound \/ Inbound

TranslateSpec == TranslateInit /\ [][TranslateNext]_vars

\* ------------------------------------------------- the remote stand-in
\* A remote call is answered when it is issued and the answer is in flight
\* (resp) until the caller takes it.  Any call may fail with an error of the
\* API or the transport, which leaves the integration as it was.
ApiError == <<"API error">>
NotFound == <<"Not Found">>

Call(fn, arg) == [fn |-> fn, arg |-> arg]

\* GetIntegrationWebhook: the answers the client may give.
GetAnswers ==
    {[err |-> ApiError, hooks |-> <<>>]}
        \cup (IF remote.present
              THEN {[err |-> <<>>, hooks |-> remote.hooks]}
              ELSE {[err |-> NotFound, hooks |-> <<>>]})

\* fmt.Errorf("error ...: %s", err.Error())
Wrap(prefix, err) == <<prefix>> \o err

\* ------------------------------------------------------- the framework
Ops == {"create", "read", "delete", "exists", "import"}

FirstPc(o) ==
    CASE o = "create" -> "c_lock"
      [] o = "delete" -> "d_lock"
      [] o = "exists" -> "e_call"
      [] OTHER -> "r_call"

\* The framework invokes operation o of the resource on thread t.
InvokeOp(t, o) ==
    /\ pc[t] = "idle"
    /\ op' = [op EXCEPT ![t] = o]
    /\ pc' = [pc EXCEPT ![t] = FirstPc(o)]
    /\ UNCHANGED <<mutex, remote, d, calls, resp, ret, hvars, wvars>>

Invoke(t) == \E o \in Ops : InvokeOp(t, o)

\* The framework has taken what the invocation returned.
Complete(t) ==
    /\ pc[t] = "done"
    /\ pc' = [pc EXCEPT ![t] = "idle"]
    /\ op' = [op EXCEPT ![t] = "none"]
    /\ calls' = [calls EXCEPT ![t] = <<>>]
    /\ resp' = [resp EXCEPT ![t] = NoResp]
    /\ ret' = [ret EXCEPT ![t] = NoRet]
    /\ UNCHANGED <<mutex, remote, d, hvars, wvars>>

\* ------------------------------------------------------------- exists
ExistsCall(t) ==
    /\ pc[t] = "e_call"
    /\ \E answer \in GetAnswers : resp' = [resp EXCEPT ![t] = answer]
    /\ calls' = [calls EXCEPT ![t] = Append(@, Call("GetIntegrationWebhook", <<>>))]
    /\ pc' = [pc EXCEPT ![t] = "e_wait"]
    /\ UNCHANGED <<mutex, remote, op, d, ret, hvars, wvars>>

\* exists that hands every error of the fetch to its caller.
ExistsResultStrict(answer) ==
    IF answer.err # <<>>
    THEN [err |-> answer.err, b |-> FALSE, n |-> 0]
    ELSE [err |-> <<>>, b |-> Len(answer.hooks) > 0, n |-> 0]

ExistsResult(answer) ==
    IF answer.err # <<>> /\ answer.err = NotFound
    THEN [err |-> <<>>, b |-> FALSE, n |-> 0]
    ELSE IF answer.err # <<>>
    THEN [err |-> answer.err, b |-> FALSE, n |-> 0]
    ELSE [err |-> <<>>, b |-> Len(answer.hooks) > 0, n |-> 0]

ExistsReturn(t) ==
    /\ pc[t] = "e_wait"
    /\ ret' = [ret EXCEPT ![t] = ExistsResult(resp[t])]
    /\ pc' = [pc EXCEPT ![t] = "done"]
    /\ UNCHANGED <<mutex, remote, op, d, calls, resp, hvars, wvars>>

resourceDatadogIntegrationWebhookExists(t) == ExistsCall(t) \/ ExistsReturn(t)

\* --------------------------------------------------------------- read
\* Run by read and import on their own and by create as its last statement.
\* read that takes its fetch only while the lock is free, unless create
\* runs it.
ReadCallGuarded(t) ==
    /\ pc[t] = "r_call"
    /\ op[t] = "create" \/ ~mutex
    /\ \E answer \in GetAnswers : resp' = [resp EXCEPT ![t] = answer]
    /\ calls' = [calls EXCEPT ![t] = Append(@, Call("GetIntegrationWebhook", <<>>))]
    /\ pc' = [pc EXCEPT ![t] = "r_wait"]
    /\ UNCHANGED <<mutex, remote, op, d, ret, hvars, wvars>>

ReadCall(t) ==
    /\ pc[t] = "r_call"
    /\ \E answer \in GetAnswers : resp' = [resp EXCEPT ![t] = answer]
    /\ calls' = [calls EXCEPT ![t] = Append(@, Call("GetIntegrationWebhook", <<>>))]
    /\ pc' = [pc EXCEPT ![t] = "r_wait"]
    /\ UNCHANGED <<mutex, remote, op, d, ret, hvars, wvars>>

\* The error read returns for an answer, <<>> when it sets "hooks".
ReadError(answer) ==
    IF answer.err # <<>>
    THEN Wrap("error reading the Webhook integration: ", answer.err)
    ELSE buildTerraformWebhooks(answer.hooks).err

\* The records before the first that does not translate, translated.
RECURSIVE TranslatedPrefix(_, _, _)
TranslatedPrefix(datadogWebhooks, idx, terraformWebhooks) ==
    IF idx > Len(datadogWebhooks) THEN terraformWebhooks
    ELSE Bind(WebhookError(datadogWebhooks[idx]), LAMBDA err :
             IF err # <<>> THEN terraformWebhooks
             ELSE Bind(Append(terraformWebhooks, WebhookValue(datadogWebhooks[idx])),
                       LAMBDA webhooks :
                           TranslatedPrefix(datadogWebhooks, idx + 1, webhooks)))

\* read that sets "hooks" to what it had translated when a record failed.
ReadHooksPartial(answer, hooks) ==
    IF answer.err # <<>> THEN hooks
    ELSE TranslatedPrefix(answer.hooks, 1, <<>>)

\* The "hooks" attribute after read has run on an answer; d.Set is taken to
\* store the list it is given.
ReadHooks(answer, hooks) ==
    IF ReadError(answer) # <<>> THEN hooks
    ELSE buildTerraformWebhooks(answer.hooks).val

\* What the operation that ran read returns: import hands back the one
\* ResourceData when read succeeded.
ReadResult(o, answer) ==
    [err |-> ReadError(answer), b |-> FALSE,
     n |-> IF o = "import" /\ ReadError(answer) = <<>> THEN 1 ELSE 0]

\* The deferred Unlock of create runs when its read returns.
ReadReturn(t) ==
    /\ pc[t] = "r_wait"
    /\ d' = [d EXCEPT ![t] = ReadHooks(resp[t], @)]
    /\ ret' = [ret EXCEPT ![t] = ReadResult(op[t], resp[t])]
    /\ mutex' = IF op[t] = "create" THEN FALSE ELSE mutex
    /\ pc' = [pc EXCEPT ![t] = "done"]
    /\ UNCHANGED <<remote, op, calls, resp, hvars, wvars>>

resourceDatadogIntegrationWebhookRead(t) == ReadCall(t) \/ ReadReturn(t)

\* ------------------------------------------------------------- create
\* create that goes on without the lock.
CreateLockWithoutWaiting(t) ==
    /\ pc[t] = "c_lock"
    /\ mutex' = TRUE
    /\ pc' = [pc EXCEPT ![t] = "c_call"]
    /\ UNCHANGED <<remote, op, d, calls, resp, ret, hvars, wvars>>

CreateLock(t) ==
    /\ pc[t] = "c_lock"
    /\ ~mutex
    /\ mutex' = TRUE
    /\ pc' = [pc EXCEPT ![t] = "c_call"]
    /\ UNCHANGED <<remote, op, d, calls, resp, ret, hvars, wvars>>

\* The request is built from the configuration and sent; when the call
\* succeeds the integration holds what was sent.
CreateCall(t) ==
    /\ pc[t] = "c_call"
    /\ \E orders \in ListOrders(d[t]) :
         LET iwebhook ==
                 resourceDatadogIntegrationWebhookPrepareCreateRequest(d[t], orders)
         IN  /\ calls' = [calls EXCEPT
                    ![t] = Append(@, Call("CreateIntegrationWebhook", iwebhook))]
             /\ \/ /\ remote' = Present(iwebhook)
                   /\ resp' = [resp EXCEPT ![t] = NoResp]
                \/ /\ remote' = remote
                   /\ resp' = [resp EXCEPT ![t] = [err |-> ApiError, hooks |-> <<>>]]
    /\ pc' = [pc EXCEPT ![t] = "c_wait"]
    /\ UNCHANGED <<mutex, op, d, ret, hvars, wvars>>

\* create whose Unlock is not deferred: the return on a failed call skips it.
CreateReturnKeepingLock(t) ==
    /\ pc[t] = "c_wait"
    /\ IF resp[t].err # <<>>
       THEN /\ ret' = [ret EXCEPT ![t] =
                   [err |-> Wrap("error creating a Webhook integration: ", resp[t].err),
                    b |-> FALSE, n |-> 0]]
            /\ pc' = [pc EXCEPT ![t] = "done"]
       ELSE /\ pc' = [pc EXCEPT ![t] = "r_call"]
            /\ UNCHANGED ret
    /\ UNCHANGED <<mutex, remote, op, d, calls, resp, hvars, wvars>>

\* create that reads whether its call failed or not.
CreateReturnThenRead(t) ==
    /\ pc[t] = "c_wait"
    /\ pc' = [pc EXCEPT ![t] = "r_call"]
    /\ UNCHANGED <<ret, mutex, remote, op, d, calls, resp, hvars, wvars>>

\* A failed call returns at once and the deferred Unlock runs; a call that
\* succeeded is followed by read.
CreateReturn(t) ==
    /\ pc[t] = "c_wait"
    /\ IF resp[t].err # <<>>
       THEN /\ ret' = [ret EXCEPT ![t] =
                   [err |-> Wrap("error creating a Webhook integration: ", resp[t].err),
                    b |-> FALSE, n |-> 0]]
            /\ mutex' = FALSE
            /\ pc' = [pc EXCEPT ![t] = "done"]
       ELSE /\ pc' = [pc EXCEPT ![t] = "r_call"]
            /\ UNCHANGED <<ret, mutex>>
    /\ UNCHANGED <<remote, op, d, calls, resp, hvars, wvars>>

resourceDatadogIntegrationWebhookCreate(t) ==
    CreateLock(t) \/ CreateCall(t) \/ CreateReturn(t)

\* ------------------------------------------------------------- delete
DeleteLock(t) ==
    /\ pc[t] = "d_lock"
    /\ ~mutex
    /\ mutex' = TRUE
    /\ pc' = [pc EXCEPT ![t] = "d_call"]
    /\ UNCHANGED <<remote, op, d, calls, resp, ret, hvars, wvars>>

\* The whole integration is removed; the API refuses to remove what is not
\* there.
DeleteCall(t) ==
    /\ pc[t] = "d_call"
    /\ calls' = [calls EXCEPT ![t] = Append(@, Call("DeleteIntegrationWebhook", <<>>))]
    /\ \/ /\ remote.present
          /\ remote' = Absent
          /\ resp' = [resp EXCEPT ![t] = NoResp]
       \/ /\ remote' = remote
          /\ resp' = [resp EXCEPT ![t] =
                 [err |-> IF remote.present THEN ApiError ELSE NotFound,
                  hooks |-> <<>>]]
    /\ pc' = [pc EXCEPT ![t] = "d_wait"]
    /\ UNCHANGED <<mutex, op, d, ret, hvars, wvars>>

\* The deferred Unlock runs whether the call failed or not.
DeleteReturn(t) ==
    /\ pc[t] = "d_wait"
    /\ ret' = [ret EXCEPT ![t] =
           [err |-> IF resp[t].err # <<>>
                    THEN Wrap("error deleting a Webhook integration: ", resp[t].err)
                    ELSE <<>>,
            b |-> FALSE, n |-> 0]]
    /\ mutex' = FALSE
    /\ pc' = [pc EXCEPT ![t] = "done"]
    /\ UNCHANGED <<remote, op, d, calls, resp, hvars, wvars>>

resourceDatadogIntegrationWebhookDelete(t) ==
    DeleteLock(t) \/ DeleteCall(t) \/ DeleteReturn(t)

\* ------------------------------------------------- the specifications
Step(t) ==
    \/ Invoke(t)
    \/ resourceDatadogIntegrationWebhookExists(t)
    \/ resourceDatadogIntegrationWebhookRead(t)
    \/ resourceDatadogIntegrationWebhookCreate(t)
    \/ resourceDatadogIntegrationWebhookDelete(t)
    \/ Complete(t)

\* The threads of one process, each with a ResourceData of its own: the
\* configuration of one hook, which for some of them has a header that does
\* not come back from the wire.  There is no integration yet.
Init ==
    /\ HeaderIdle
    /\ HooksIdle
    /\ mutex = FALSE
    /\ remote = Absent
    /\ pc = [t \in Threads |-> "idle"]
    /\ op = [t \in Threads |-> "none"]
    /\ d \in [Threads -> {<<HookB>>, <<HookC>>}]
    /\ calls = [t \in Threads |-> <<>>]
    /\ resp = [t \in Threads |-> NoResp]
    /\ ret = [t \in Threads |-> NoRet]

Next == \E t \in Threads : Step(t)

Spec == Init /\ [][Next]_vars

\* The operations that take the lock, on their own.
LockStep(t) ==
    \/ InvokeOp(t, "create")
    \/ InvokeOp(t, "delete")
    \/ resourceDatadogIntegrationWebhookCreate(t)
    \/ resourceDatadogIntegrationWebhookRead(t)
    \/ resourceDatadogIntegrationWebhookDelete(t)
    \/ Complete(t)

LockNext == \E t \in Threads : LockStep(t)

\* Every step of an invocation is taken in the end: a remote call returns
\* and a thread that can run does.  sync.Mutex hands the lock to a waiter
\* that has failed to get it (starvation mode), so that a waiter for whom
\* the lock is free again and again gets it.  The framework need not invoke
\* anything.
Proceed(t) ==
    \/ resourceDatadogIntegrationWebhookExists(t)
    \/ resourceDatadogIntegrationWebhookRead(t)
    \/ CreateCall(t) \/ CreateReturn(t)
    \/ DeleteCall(t) \/ DeleteReturn(t)
    \/ Complete(t)

Fairness ==
    \A t \in Threads :
        /\ WF_vars(Proceed(t))
        /\ SF_vars(CreateLock(t) \/ DeleteLock(t))

FairSpec == Spec /\ Fairness

LockFairSpec == Init /\ [][LockNext]_vars /\ Fairness

\* One thread against any configuration and any integration found at the
\* start.
SeqInit ==
    /\ HeaderIdle
    /\ HooksIdle
    /\ mutex = FALSE
    /\ remote \in {Absent}
           \cup {Present(l) :
                    l \in Lists({WireGood, WireBadBool, WireBadHeader}, MaxRemoteHooks)}
    /\ pc = [t \in Threads |-> "idle"]
    /\ op = [t \in Threads |-> "none"]
    /\ \E l \in Lists({HookA, HookB, HookC}, MaxConfigHooks) :
           d = [t \in Threads |-> l]
    /\ calls = [t \in Threads |-> <<>>]
    /\ resp = [t \in Threads |-> NoResp]
    /\ ret = [t \in Threads |-> NoRet]

SeqNext == Step(1)

SeqSpec == SeqInit /\ [][SeqNext]_vars

\* ------------------------------------------------------ header claims
Lines(s) == Split(s, "\n")

\* The text before the first colon of a line that has one, and the text
\* after it.
BeforeColon(line) == Split(line, ":")[1]
AfterColon(line) == SubSeq(line, Len(BeforeColon(line)) + 2, Len(line))
DropOneSpace(s) == IF s # <<>> /\ Head(s) = " " THEN Tail(s) ELSE s

ColonNewlineFree(s) == ~Contains(s, ":") /\ ~Contains(s, "\n")
MapColonNewlineFree(m) ==
    \A k \in DOMAIN m : ColonNewlineFree(k) /\ ColonNewlineFree(m[k])

AllBlank(s) == \A i \in 1..Len(s) : s[i] \in {" ", "\t", "\n"}

HasBareLine(s) ==
    \E i \in 1..Len(Lines(s)) : Len(Lines(s)[i]) > 0 /\ ~Contains(Lines(s)[i], ":")

\* C3: for every mapping whose keys and values hold no colon and no newline,
\* decoding the encoded headers succeeds and gives the mapping back.
C3_DecodeEncodeIsIdentity ==
    (phase = "roundtrip" /\ MapColonNewlineFree(headerMap))
        => (~decoded.err /\ ~decoded.nil /\ decoded.val = headerMap)

\* C4: an accepted line stores, under the text before its first colon, all
\* the text after that colon less one leading space (of the lines with the
\* same key the last one counts).
C4_KeyAndValueOfLine ==
    (phase = "decoded" /\ ~decoded.err /\ ~AllBlank(headerStr))
        => \A i \in 1..Len(Lines(headerStr)) :
              LET line == Lines(headerStr)[i]
                  last == \A j \in (i + 1)..Len(Lines(headerStr)) :
                             BeforeColon(Lines(headerStr)[j]) # BeforeColon(line)
              IN  last => /\ BeforeColon(line) \in DOMAIN decoded.val
                          /\ decoded.val[BeforeColon(line)]
                                 = DropOneSpace(AfterColon(line))

\* C5 as first stated: every input with a non-empty line that has no colon
\* is refused with an error and no mapping.
C5_BareLineIsError ==
    (phase = "decoded" /\ HasBareLine(headerStr))
        => (decoded.err /\ decoded.nil)

\* C5: every input that is not made of spaces, tabs and newlines alone and
\* has a non-empty line with no colon is refused with an error and no mapping.
C5_BareLineOfNonBlankIsError ==
    (phase = "decoded" /\ ~AllBlank(headerStr) /\ HasBareLine(headerStr))
        => (decoded.err /\ decoded.nil)

\* A refused input whose bare line comes after a well-formed one.
C5_Witness ==
    /\ phase = "decoded"
    /\ ~AllBlank(headerStr)
    /\ Len(Lines(headerStr)) = 2
    /\ Contains(Lines(headerStr)[1], ":")
    /\ Len(Lines(headerStr)[2]) > 0
    /\ ~Contains(Lines(headerStr)[2], ":")
    /\ decoded.err

\* --------------------------------------------------- translation claims
\* C8: translating a list of hooks outbound and the records inbound succeeds
\* and gives the list back, field for field.
C8_InboundOfOutboundIsIdentity ==
    phase = "back" => (back.err = <<>> /\ back.val = hookList)

\* ----------------------------------------------------- lifecycle claims
Standalone(t) == op[t] \in {"read", "import", "exists"}

\* From the first remote call of a create or delete until it returns.
InSequence(t) ==
    \/ op[t] = "create" /\ pc[t] \in {"c_wait", "r_call", "r_wait"}
    \/ op[t] = "delete" /\ pc[t] = "d_wait"

\* From the Lock of a create or delete until it returns.
Holding(t) ==
    \/ op[t] = "create" /\ pc[t] \in {"c_call", "c_wait", "r_call", "r_wait"}
    \/ op[t] = "delete" /\ pc[t] \in {"d_call", "d_wait"}

Waiting(t) == pc[t] \in {"c_lock", "d_lock"}

Issued(t, fn) == Len(SelectSeq(calls[t], LAMBDA c : c.fn = fn))

\* C1: the remote-call sequences of two creates or deletes never overlap: a
\* thread that issues a call of a create or delete is then inside its
\* sequence, and no two threads are inside theirs at once.
C1_SequencesNeverInterleave ==
    \A t, u \in Threads : t # u => ~(InSequence(t) /\ InSequence(u))

\* A create inside its refresh read while a delete waits for the lock.
C1_Witness ==
    \E t, u \in Threads :
        /\ op[t] = "create" /\ pc[t] = "r_wait"
        /\ op[u] = "delete" /\ pc[u] = "d_lock"

\* C2: the lock is held only while a create or delete that took it has not
\* returned, a return of either leaves it free, and a create or delete that
\* waits for the lock gets it.
C2_LockReleasedAndAcquired ==
    /\ [][(mutex' => \E t \in Threads : Holding(t)')
          /\ \A t \in Threads : (Holding(t) /\ pc'[t] = "done") => ~mutex']_vars
    /\ \A t \in Threads : Waiting(t) ~> Holding(t)

\* A create returned the translation error of its refresh read and another
\* thread holds the lock after it.
C2_Witness ==
    \E t, u \in Threads :
        /\ op[t] = "create" /\ pc[t] = "done"
        /\ ret[t].err = <<"header not correctly formatted, expected ':'">>
        /\ Holding(u)

\* C6: exists issues one fetch and nothing else, answers (false, nil) to
\* not-found, (false, err) to another error and otherwise whether the list
\* fetched has a hook, and changes neither the local state nor the
\* integration.
C6_Exists ==
    /\ [](\A t \in Threads :
            (op[t] = "exists" /\ pc[t] = "done") =>
                /\ calls[t] = <<Call("GetIntegrationWebhook", <<>>)>>
                /\ resp[t].err = NotFound => (~ret[t].b /\ ret[t].err = <<>>)
                /\ resp[t].err \notin {<<>>, NotFound} =>
                       (~ret[t].b /\ ret[t].err = resp[t].err)
                /\ resp[t].err = <<>> =>
                       (ret[t].b = (resp[t].hooks # <<>>) /\ ret[t].err = <<>>))
    /\ [][\A t \in Threads :
            (op[t] = "exists" /\ pc'[t] # pc[t]) =>
                (d'[t] = d[t] /\ remote' = remote /\ mutex' = mutex)]_vars

\* exists has answered false to not-found.
C6_Witness ==
    \E t \in Threads :
        /\ op[t] = "exists" /\ pc[t] = "done"
        /\ resp[t].err = NotFound
        /\ ret[t] = [err |-> <<>>, b |-> FALSE, n |-> 0]

\* A wire record that does not translate: a flag that ParseBool refuses or
\* a header string with text in it and a line without a colon.
Malformed(s) ==
    ~AllBlank(s) /\ \E i \in 1..Len(Lines(s)) : ~Contains(Lines(s)[i], ":")
BoolTexts ==
    {"1", "t", "T", "TRUE", "true", "True", "0", "f", "F", "FALSE", "false", "False"}
BadRecord(w) ==
    \/ Has(w, "UseCustomPayload") /\ w["UseCustomPayload"] \notin BoolTexts
    \/ Has(w, "EncodeAsForm") /\ w["EncodeAsForm"] \notin BoolTexts
    \/ Has(w, "Headers") /\ Malformed(w["Headers"])

\* C7: the return of a read (on its own, of import or of create) leaves the
\* local hooks as they were and reports an error when the fetch failed or
\* any record fetched does not translate; otherwise it reports none and the
\* local hooks are the translations of the records fetched, in their order.
C7_ReadAllOrNothing ==
    [][\A t \in Threads :
          (pc[t] = "r_wait" /\ pc'[t] = "done") =>
              IF resp[t].err # <<>>
                 \/ \E i \in 1..Len(resp[t].hooks) : BadRecord(resp[t].hooks[i])
              THEN d'[t] = d[t] /\ ret'[t].err # <<>>
              ELSE /\ ret'[t].err = <<>>
                   /\ Len(d'[t]) = Len(resp[t].hooks)
                   /\ \A i \in 1..Len(resp[t].hooks) :
                          d'[t][i] = WebhookValue(resp[t].hooks[i])]_vars

\* A read has failed on the second of two records and the local hooks are
\* two hooks that are not the translation of the first.
C7_Witness ==
    \E t \in Threads :
        /\ op[t] = "read" /\ pc[t] = "done"
        /\ resp[t] = [err |-> <<>>, hooks |-> <<WireGood, WireBadBool>>]
        /\ ret[t].err # <<>>
        /\ d[t] = <<HookA, HookB>>

\* C9: a create issues one create request, first, with one record per hook
\* of the configuration in its order; when the request fails it returns an
\* error with no fetch issued and the local hooks unchanged; when it
\* succeeds it issues one fetch and returns what the read returns.
C9_Create ==
    /\ [](\A t \in Threads :
            (op[t] = "create" /\ pc[t] \in {"c_wait", "r_call", "r_wait"}) =>
                /\ Issued(t, "CreateIntegrationWebhook") = 1
                /\ calls[t][1].fn = "CreateIntegrationWebhook"
                /\ Len(calls[t][1].arg) = Len(d[t])
                /\ \A i \in 1..Len(d[t]) :
                       \E order \in HeaderOrders(d[t][i]) :
                           calls[t][1].arg[i] = buildDatadogWebhook(d[t][i], order))
    /\ [](\A t \in Threads :
            (op[t] = "create" /\ pc[t] = "done") =>
                /\ Issued(t, "CreateIntegrationWebhook") = 1
                /\ Issued(t, "DeleteIntegrationWebhook") = 0
                /\ IF Issued(t, "GetIntegrationWebhook") = 0
                   THEN ret[t].err # <<>>
                   ELSE /\ Issued(t, "GetIntegrationWebhook") = 1
                        /\ ret[t] = ReadResult("create", resp[t]))
    /\ [][\A t \in Threads :
            (op[t] = "create" /\ pc[t] = "c_wait" /\ pc'[t] # pc[t]) =>
                IF resp[t].err # <<>>
                THEN /\ pc'[t] = "done"
                     /\ ret'[t].err # <<>>
                     /\ calls'[t] = calls[t]
                     /\ d'[t] = d[t]
                ELSE pc'[t] = "r_call"]_vars

\* A create of two hooks has sent both, fetched once and returned no error.
C9_Witness ==
    \E t \in Threads :
        /\ op[t] = "create" /\ pc[t] = "done"
        /\ Len(calls[t]) = 2
        /\ Len(calls[t][1].arg) = 2
        /\ calls[t][1].arg[1]["Name"] = "a" /\ calls[t][1].arg[2]["Name"] = "b"
        /\ ret[t].err = <<>>

\* C10: a read, import or exists on its own never takes or waits for the
\* lock: none of its steps changes the lock and its fetch and its return
\* can be taken while the lock is held; the read inside create runs with
\* the lock held.
C10_ReadsAreUnguarded ==
    /\ [](\A t \in Threads :
            /\ (Standalone(t) /\ pc[t] = "r_call") => ENABLED ReadCall(t)
            /\ (Standalone(t) /\ pc[t] = "r_wait") => ENABLED ReadReturn(t)
            /\ (Standalone(t) /\ pc[t] = "e_call") => ENABLED ExistsCall(t)
            /\ (Standalone(t) /\ pc[t] = "e_wait") => ENABLED ExistsReturn(t)
            /\ (op[t] = "create" /\ pc[t] \in {"r_call", "r_wait"}) => mutex)
    /\ [][\A t \in Threads :
            (Standalone(t) /\ pc'[t] # pc[t]) => mutex' = mutex]_vars

\* A read on its own has returned, while another thread holds the lock in a
\* delete that has removed the integration, and has set the local hooks to
\* the hook it had fetched.
C10_Witness ==
    \E t, u \in Threads :
        /\ op[t] = "read" /\ pc[t] = "done" /\ ret[t].err = <<>>
        /\ resp[t].hooks # <<>>
        /\ d[t] = buildTerraformWebhooks(resp[t].hooks).val
        /\ op[u] = "delete" /\ pc[u] = "d_wait" /\ mutex
        /\ ~remote.present

====
